---- MODULE Spec2Model ----
(***************************************************************************)
(* LED video-wall calculator: the requirement calculation                  *)
(* (calculateRequirements), the App state that drives it, and the          *)
(* Visualizer's cabinet-to-port / cabinet-to-circuit distribution          *)
(* (generateAssignments, the snake-indexed gridData, breakdown).           *)
(*                                                                         *)
(* Numbers.  Lengths are millimetres (integers).  A pixel pitch is held in *)
(* hundredths of a millimetre (1.25 mm is 125), so widthMm / pitch is the  *)
(* exact rational (100 * widthMm) / pitch.  For integer millimetres and    *)
(* the pitches used here that quotient is never within floating-point      *)
(* error of a rounding tie, so Math.round / Math.ceil / Math.floor of the  *)
(* IEEE-754 quotient equal those of the exact one.  A quotient that is     *)
(* kept as a fraction by the program (amps220v, areaSqM) is a record       *)
(* [num, den].  JavaScript arrays are functions on 0 .. length-1.          *)
(***************************************************************************)
EXTENDS Integers, Sequences, FiniteSets, TLC

VARIABLES width, height, environment, selectedPitch, pc, args, ret

vars == <<width, height, environment, selectedPitch, pc, args, ret>>

(***************************************************************************)
(* Bounds of the model                                                     *)
(***************************************************************************)
\* direct calls of calculateRequirements: dimensions 250, 500, ... mm
MaxDimSteps == 40
\* direct calls of generateAssignments
MaxItems == 12
MaxGroups == 6
\* direct renders of the grid
MaxCols == 6
MaxRows == 5
\* dimensions typed into the App: multiples of the step up to these counts
MaxWidthSteps == 20
MaxHeightSteps == 18

(***************************************************************************)
(* constants.ts                                                            *)
(***************************************************************************)
PIXEL_PITCHES == <<125, 156, 195, 250, 260, 290, 391>>

MAX_PIXELS_PER_PORT == 650000

\* 0.85, in percent
SAFE_CAPACITY_PERCENTAGE == 85

SAFE_PIXELS_PER_PORT == (MAX_PIXELS_PER_PORT * SAFE_CAPACITY_PERCENTAGE) \div 100

\* variant: the outdoor entry left at the indoor figures
POWER_SPECS_OutdoorAsIndoor ==
  [indoor  |-> [peakWattsPerPanel |-> 250, avgWattsPerPanel |-> 100],
   outdoor |-> [peakWattsPerPanel |-> 250, avgWattsPerPanel |-> 100]]

POWER_SPECS ==
  [indoor  |-> [peakWattsPerPanel |-> 250, avgWattsPerPanel |-> 100],
   outdoor |-> [peakWattsPerPanel |-> 500, avgWattsPerPanel |-> 200]]

STANDARD_BREAKER_SIZES ==
  <<20, 30, 40, 50, 60, 70, 80, 100, 125, 150, 175, 200, 225, 250,
    300, 350, 400, 500, 600, 800, 1000, 1200>>

(***************************************************************************)
(* JavaScript arithmetic on a quotient n / d with d > 0                    *)
(***************************************************************************)
\* Math.ceil(n / d)
MathCeil(n, d) == -((-n) \div d)

\* Math.floor(n / d)
MathFloor(n, d) == n \div d

\* Math.round(n / d): the nearest integer, a tie going up
MathRound(n, d) == (2 * n + d) \div (2 * d)

MathMax(a, b) == IF a >= b THEN a ELSE b

MathMin(a, b) == IF a <= b THEN a ELSE b

\* x / 0 for x > 0: greater than every finite number of the model
Infinity == 2147483647

(***************************************************************************)
(* utils.ts: calculateRequirements, step by step                           *)
(***************************************************************************)
CABINET_WIDTH_MM == 500

CABINET_HEIGHT_MM == 1000

\* variant: the column count rounded to the nearest instead of up
cabinetsWidthRounded(widthMm) == MathRound(widthMm, CABINET_WIDTH_MM)

\* Math.ceil(widthMm / CABINET_WIDTH_MM)
cabinetsWidthOf(widthMm) == MathCeil(widthMm, CABINET_WIDTH_MM)

\* variant: the rows counted with the cabinet's width
cabinetsHeightByWidth(heightMm) == MathCeil(heightMm, CABINET_WIDTH_MM)

\* Math.ceil(heightMm / CABINET_HEIGHT_MM)
cabinetsHeightOf(heightMm) == MathCeil(heightMm, CABINET_HEIGHT_MM)

\* Math.round(lengthMm / pitch), pitch in hundredths of a millimetre
resolutionOf(lengthMm, pitch) == MathRound(100 * lengthMm, pitch)

\* variant: the width taken twice
totalPixelsWidthTwice(resolutionWidth, resolutionHeight) == resolutionWidth * resolutionWidth

\* resolutionWidth * resolutionHeight
totalPixelsOf(resolutionWidth, resolutionHeight) == resolutionWidth * resolutionHeight

\* pixelsPerCabinetW * pixelsPerCabinetH
pixelsPerCabinetOf(pitch) ==
  resolutionOf(CABINET_WIDTH_MM, pitch) * resolutionOf(CABINET_HEIGHT_MM, pitch)

\* variant: width against the long thresholds, height against the short ones
resolutionClassLandscapeOnly(resolutionWidth, resolutionHeight) ==
  IF resolutionWidth >= 7680 /\ resolutionHeight >= 4320 THEN "8K"
  ELSE IF resolutionWidth >= 3840 /\ resolutionHeight >= 2160 THEN "4K"
  ELSE IF resolutionWidth >= 2560 /\ resolutionHeight >= 1440 THEN "QHD"
  ELSE IF resolutionWidth >= 1920 /\ resolutionHeight >= 1080 THEN "FHD"
  ELSE IF resolutionWidth >= 1280 /\ resolutionHeight >= 720 THEN "HD"
  ELSE "SD"

\* the if / else-if chain on longSide and shortSide
resolutionClassOf(resolutionWidth, resolutionHeight) ==
  LET longSide  == MathMax(resolutionWidth, resolutionHeight)
      shortSide == MathMin(resolutionWidth, resolutionHeight)
  IN  IF longSide >= 7680 /\ shortSide >= 4320 THEN "8K"
      ELSE IF longSide >= 3840 /\ shortSide >= 2160 THEN "4K"
      ELSE IF longSide >= 2560 /\ shortSide >= 1440 THEN "QHD"
      ELSE IF longSide >= 1920 /\ shortSide >= 1080 THEN "FHD"
      ELSE IF longSide >= 1280 /\ shortSide >= 720 THEN "HD"
      ELSE "SD"

\* variant: the hardware ceiling used without the 85% derating
maxCabinetsPerPortUnderated(pixelsPerCabinet) ==
  IF pixelsPerCabinet = 0 THEN Infinity
  ELSE MathFloor(MAX_PIXELS_PER_PORT, pixelsPerCabinet)

\* Math.floor(SAFE_PIXELS_PER_PORT / pixelsPerCabinet); the division by a
\* zero pixelsPerCabinet yields Infinity, which Math.floor keeps
maxCabinetsPerPortOf(pixelsPerCabinet) ==
  IF pixelsPerCabinet = 0 THEN Infinity
  ELSE MathFloor(SAFE_PIXELS_PER_PORT, pixelsPerCabinet)

\* variant: the operands of the last division swapped
lanPortsPerPortOverTotal(totalCabinets, pixelsPerCabinet) ==
  LET maxCabinetsPerPort       == maxCabinetsPerPortOf(pixelsPerCabinet)
      effectiveCabinetsPerPort == MathMax(1, maxCabinetsPerPort)
  IN  IF effectiveCabinetsPerPort = Infinity \/ totalCabinets <= 0 THEN 0
      ELSE MathCeil(effectiveCabinetsPerPort, totalCabinets)

\* variant: the port count rounded down (at least one port)
lanPortsFloored(totalCabinets, pixelsPerCabinet) ==
  LET maxCabinetsPerPort       == maxCabinetsPerPortOf(pixelsPerCabinet)
      effectiveCabinetsPerPort == MathMax(1, maxCabinetsPerPort)
  IN  IF effectiveCabinetsPerPort = Infinity THEN 0
      ELSE MathMax(1, MathFloor(totalCabinets, effectiveCabinetsPerPort))

\* Math.ceil(totalCabinets / Math.max(1, maxCabinetsPerPort)); a finite
\* totalCabinets divided by Infinity is 0
lanPortsOf(totalCabinets, pixelsPerCabinet) ==
  LET maxCabinetsPerPort       == maxCabinetsPerPortOf(pixelsPerCabinet)
      effectiveCabinetsPerPort == MathMax(1, maxCabinetsPerPort)
  IN  IF effectiveCabinetsPerPort = Infinity THEN 0
      ELSE MathCeil(totalCabinets, effectiveCabinetsPerPort)

\* variant: the last bound taken as lanPorts < 16
controllerSixteenExcluded(lanPorts) ==
  IF lanPorts = 1 THEN "TB20"
  ELSE IF lanPorts <= 2 THEN "MCTRL300"
  ELSE IF lanPorts <= 4 THEN "MCTRL600"
  ELSE IF lanPorts < 16 THEN "VX16s"
  ELSE "Multiple VX16s"

controllerOf(lanPorts) ==
  IF lanPorts = 1 THEN "TB20"
  ELSE IF lanPorts <= 2 THEN "MCTRL300"
  ELSE IF lanPorts <= 4 THEN "MCTRL600"
  ELSE IF lanPorts <= 16 THEN "VX16s"
  ELSE "Multiple VX16s"

\* variant: the load factor taken as 1.0, the breaker's full 20 A
safeAmpsPerCircuitUnderated == (20 * 10) \div 10

\* 20 * SAFE_LOAD_FACTOR
safeAmpsPerCircuit == (20 * 8) \div 10

\* variant: the circuit count rounded down
circuits220vFloored(totalCabinets, peakWattsPerPanel) ==
  LET maxCabinetsPerCircuit       == MathFloor(safeAmpsPerCircuit * 220, peakWattsPerPanel)
      effectiveCabinetsPerCircuit == MathMax(1, maxCabinetsPerCircuit)
  IN  MathFloor(totalCabinets, effectiveCabinetsPerCircuit)

\* Math.ceil(totalCabinets / Math.max(1, Math.floor(safeAmpsPerCircuit /
\* ampsPerCabinet))) with ampsPerCabinet = peakWattsPerPanel / 220
circuits220vOf(totalCabinets, peakWattsPerPanel) ==
  LET maxCabinetsPerCircuit       == MathFloor(safeAmpsPerCircuit * 220, peakWattsPerPanel)
      effectiveCabinetsPerCircuit == MathMax(1, maxCabinetsPerCircuit)
  IN  MathCeil(totalCabinets, effectiveCabinetsPerCircuit)

\* variant: the breaker sized for amps220v without the 25% margin
mainBreakerNoMargin(peakPowerWatts) ==
  LET fits == {i \in DOMAIN STANDARD_BREAKER_SIZES :
                  220 * STANDARD_BREAKER_SIZES[i] >= peakPowerWatts}
  IN  IF fits # {}
      THEN STANDARD_BREAKER_SIZES[CHOOSE i \in fits : \A j \in fits : i <= j]
      ELSE STANDARD_BREAKER_SIZES[Len(STANDARD_BREAKER_SIZES)]

\* STANDARD_BREAKER_SIZES.find(size => size >= amps220v * 1.25) || the last;
\* size >= (peakPowerWatts / 220) * 1.25 is 880 * size >= 5 * peakPowerWatts
mainBreakerSizeOf(peakPowerWatts) ==
  LET fits == {i \in DOMAIN STANDARD_BREAKER_SIZES :
                  880 * STANDARD_BREAKER_SIZES[i] >= 5 * peakPowerWatts}
  IN  IF fits # {}
      THEN STANDARD_BREAKER_SIZES[CHOOSE i \in fits : \A j \in fits : i <= j]
      ELSE STANDARD_BREAKER_SIZES[Len(STANDARD_BREAKER_SIZES)]

calculateRequirements(widthMm, heightMm, pitch, env) ==
  LET cabinetsWidth    == cabinetsWidthOf(widthMm)
      cabinetsHeight   == cabinetsHeightOf(heightMm)
      totalCabinets    == cabinetsWidth * cabinetsHeight
      resolutionWidth  == resolutionOf(widthMm, pitch)
      resolutionHeight == resolutionOf(heightMm, pitch)
      pixelsPerCabinet == pixelsPerCabinetOf(pitch)
      lanPorts         == lanPortsOf(totalCabinets, pixelsPerCabinet)
      specs            == POWER_SPECS[env]
      peakPowerWatts   == totalCabinets * specs.peakWattsPerPanel
  IN  [pitch            |-> pitch,
       resolutionWidth  |-> resolutionWidth,
       resolutionHeight |-> resolutionHeight,
       resolutionClass  |-> resolutionClassOf(resolutionWidth, resolutionHeight),
       totalPixels      |-> totalPixelsOf(resolutionWidth, resolutionHeight),
       lanPorts         |-> lanPorts,
       controller       |-> controllerOf(lanPorts),
       peakPowerWatts   |-> peakPowerWatts,
       avgPowerWatts    |-> totalCabinets * specs.avgWattsPerPanel,
       amps220v         |-> [num |-> peakPowerWatts, den |-> 220],
       circuits220v     |-> circuits220vOf(totalCabinets, specs.peakWattsPerPanel),
       mainBreakerSize  |-> mainBreakerSizeOf(peakPowerWatts),
       areaSqM          |-> [num |-> widthMm * heightMm, den |-> 1000000],
       cabinetsWidth    |-> cabinetsWidth,
       cabinetsHeight   |-> cabinetsHeight,
       totalCabinets    |-> totalCabinets]

(***************************************************************************)
(* components/Visualizer.tsx: gridData                                     *)
(***************************************************************************)
\* what reading past the end of an array yields; never a group id
Undefined == -1

\* array[index]
arrayGet(array, index) == IF index \in DOMAIN array THEN array[index] ELSE Undefined

\* variant: sequential fill, every group taking a full share
groupSizeGreedy(i, totalItems, groupCount) == MathCeil(totalItems, groupCount)

\* variant: the whole remainder given to the last group
groupSizeLastTakesRest(i, totalItems, groupCount) ==
  IF i = groupCount - 1
  THEN MathFloor(totalItems, groupCount) + (totalItems % groupCount)
  ELSE MathFloor(totalItems, groupCount)

\* const count = i < remainder ? baseSize + 1 : baseSize
groupSize(i, totalItems, groupCount) ==
  LET baseSize  == MathFloor(totalItems, groupCount)
      remainder == totalItems % groupCount
  IN  IF i < remainder THEN baseSize + 1 ELSE baseSize

\* The two loops.  Iteration i of the outer loop runs the inner loop count
\* times (not at all for count <= 0), and every inner iteration whose guard
\* currentItem < totalItems holds writes i at currentItem and advances it.
loopRuns(i, totalItems, groupCount) == MathMax(0, groupSize(i, totalItems, groupCount))

RECURSIVE writesOf(_, _, _, _)
\* the values the inner loop is run for, in order, by the outer iterations
\* from .. to - 1 (the range is halved, so that nesting stays shallow)
writesOf(from, to, totalItems, groupCount) ==
  IF to <= from THEN <<>>
  ELSE IF to = from + 1
       THEN [j \in 1 .. loopRuns(from, totalItems, groupCount) |-> from]
       ELSE LET mid == (from + to) \div 2
            IN  writesOf(from, mid, totalItems, groupCount)
                  \o writesOf(mid, to, totalItems, groupCount)

\* new Array(length) throws a RangeError for a negative length
newArrayThrows(length) == length < 0

\* variant: the groups dealt out in turn, one item at a time
generateAssignmentsRoundRobin(totalItems, groupCount) ==
  [k \in 0 .. totalItems - 1 |-> k % groupCount]

\* new Array(totalItems).fill(0), then the two loops (when it does not
\* throw): entry k takes the k-th write, and keeps its 0 if there is none
generateAssignments(totalItems, groupCount) ==
  LET writes == writesOf(0, groupCount, totalItems, groupCount)
  IN  [k \in 0 .. totalItems - 1 |-> IF k < Len(writes) THEN writes[k + 1] ELSE 0]

\* variant: odd columns counted back from cabinetsHeight, not cabinetsHeight - 1
snakeIndexOffByOne(x, y, cabinetsHeight) ==
  IF x % 2 = 0 THEN (x * cabinetsHeight) + y
  ELSE (x * cabinetsHeight) + (cabinetsHeight - y)

\* variant: every column numbered top to bottom
snakeIndexNoTurn(x, y, cabinetsHeight) == (x * cabinetsHeight) + y

\* even column: top to bottom; odd column: bottom to top
snakeIndex(x, y, cabinetsHeight) ==
  IF x % 2 = 0 THEN (x * cabinetsHeight) + y
  ELSE (x * cabinetsHeight) + (cabinetsHeight - 1 - y)

\* variant: the assignments looked up one place further on
gridCellOneBased(x, y, data, portAssignments, circuitAssignments) ==
  LET index == snakeIndex(x, y, data.cabinetsHeight)
  IN  [x          |-> x,
       y          |-> y,
       snakeIndex |-> index,
       portId     |-> arrayGet(portAssignments, index + 1),
       circuitId  |-> arrayGet(circuitAssignments, index + 1)]

\* one pushed cell
gridCell(x, y, data, portAssignments, circuitAssignments) ==
  LET index == snakeIndex(x, y, data.cabinetsHeight)
  IN  [x          |-> x,
       y          |-> y,
       snakeIndex |-> index,
       portId     |-> arrayGet(portAssignments, index),
       circuitId  |-> arrayGet(circuitAssignments, index)]

\* gridData throws when generateAssignments(totalCabinets, ...) does
gridDataThrows(data) == newArrayThrows(data.totalCabinets)

\* for y, for x: cells.push(...); the cell pushed k-th is (x, y) = (k mod
\* cabinetsWidth, k div cabinetsWidth)
gridData(data) ==
  LET portAssignments    == generateAssignments(data.totalCabinets, data.lanPorts)
      circuitAssignments == generateAssignments(data.totalCabinets, data.circuits220v)
      pushed == IF data.cabinetsWidth > 0 /\ data.cabinetsHeight > 0
                THEN data.cabinetsWidth * data.cabinetsHeight ELSE 0
  IN  [cells |-> [k \in 0 .. pushed - 1 |->
                    gridCell(k % data.cabinetsWidth, k \div data.cabinetsWidth,
                             data, portAssignments, circuitAssignments)]]

(***************************************************************************)
(* components/Visualizer.tsx: breakdown (the per-port and per-circuit      *)
(* cabinet counts, the circuits' load and the MCCB groups; the ports'      *)
(* display-only pixels and percentage are not carried)                     *)
(***************************************************************************)
\* let maxId = 0; gridData.cells.forEach(c => { if (c.id > maxId) maxId = c.id })
maxIdOf(cells, field) ==
  LET seen == {0} \cup {cells[k][field] : k \in DOMAIN cells}
  IN  CHOOSE m \in seen : \A id \in seen : id <= m

\* groups.push({id: i, count: 0}) for i in 0 .. maxId, then count++ per cell
countedGroups(cells, field) ==
  LET maxId == maxIdOf(cells, field)
  IN  [i \in 0 .. maxId |->
         [id |-> i, count |-> Cardinality({k \in DOMAIN cells : cells[k][field] = i})]]

\* variant: a group of a single cabinet dropped as well
hasCabinetsSeveral(group) == group.count > 1

hasCabinets(group) == group.count > 0

\* array.filter(g => g.count > 0), keeping the order
activeGroups(groups) ==
  LET asSeq == [i \in 1 .. Cardinality(DOMAIN groups) |-> groups[i - 1]]
      kept  == SelectSeq(asSeq, hasCabinets)
  IN  [i \in 0 .. Len(kept) - 1 |-> kept[i + 1]]

\* array.length
arrayLength(array) == Cardinality(DOMAIN array)

\* array.push(value)
arrayPush(array, value) ==
  [k \in 0 .. arrayLength(array) |-> IF k \in DOMAIN array THEN array[k] ELSE value]

\* array.slice(from, to)
arraySlice(array, from, to) ==
  [k \in 0 .. MathMin(to, arrayLength(array)) - from - 1 |-> array[from + k]]

\* variant: the average power divided among the cabinets
wattsPerCabinetFromAverage(data) == data.avgPowerWatts \div data.totalCabinets

\* data.peakPowerWatts / data.totalCabinets: peakPowerWatts is totalCabinets
\* times the panel's peak watts, so the quotient is that whole number
wattsPerCabinetOf(data) == data.peakPowerWatts \div data.totalCabinets

\* {...c, watts: c.count * wattsPerCabinet, amps: (c.count * wattsPerCabinet) / 220}
circuitLoad(c, data) ==
  [id    |-> c.id,
   count |-> c.count,
   watts |-> c.count * wattsPerCabinetOf(data),
   amps  |-> [num |-> c.count * wattsPerCabinetOf(data), den |-> 220]]

\* activeCircuits: the circuits that have cabinets, with their load
activeCircuitsOf(data, grid) ==
  LET kept == activeGroups(countedGroups(grid.cells, "circuitId"))
  IN  [k \in DOMAIN kept |-> circuitLoad(kept[k], data)]

CIRCUITS_PER_MCCB == 6

standardSizes == <<32, 40, 63, 80, 100, 125, 160, 200, 250, 400>>

RECURSIVE sumAmps(_, _)
\* groupCircuits.reduce((sum, c) => sum + c.amps, 0), from circuit k on; every
\* amps is a number of 220ths.  No sum a wall can produce has sum * 1.25
\* within floating-point error of an entry of standardSizes.
sumAmps(groupCircuits, k) ==
  IF k \notin DOMAIN groupCircuits THEN 0
  ELSE groupCircuits[k].amps.num + sumAmps(groupCircuits, k + 1)

\* variant: the block sized for its load without the 25% margin
mccbSizeNoMargin(totalAmps) ==
  LET fits == {i \in DOMAIN standardSizes :
                  standardSizes[i] * totalAmps.den >= totalAmps.num}
  IN  IF fits # {}
      THEN standardSizes[CHOOSE i \in fits : \A j \in fits : i <= j]
      ELSE 400

\* standardSizes.find(s => s >= totalAmps * 1.25) || 400
mccbSizeOf(totalAmps) ==
  LET fits == {i \in DOMAIN standardSizes :
                  4 * standardSizes[i] * totalAmps.den >= 5 * totalAmps.num}
  IN  IF fits # {}
      THEN standardSizes[CHOOSE i \in fits : \A j \in fits : i <= j]
      ELSE 400

\* variant: the block ids counted from 0
mccbGroupZeroBasedId(activeCircuits, i) ==
  LET groupCircuits == arraySlice(activeCircuits, i, i + CIRCUITS_PER_MCCB)
      totalAmps     == [num |-> sumAmps(groupCircuits, 0), den |-> 220]
  IN  [id        |-> MathFloor(i, CIRCUITS_PER_MCCB),
       circuits  |-> groupCircuits,
       totalAmps |-> totalAmps,
       size      |-> mccbSizeOf(totalAmps)]

\* variant: the slice two circuits longer than the loop's step
mccbGroupEightCircuits(activeCircuits, i) ==
  LET groupCircuits == arraySlice(activeCircuits, i, i + CIRCUITS_PER_MCCB + 2)
      totalAmps     == [num |-> sumAmps(groupCircuits, 0), den |-> 220]
  IN  [id        |-> MathFloor(i, CIRCUITS_PER_MCCB) + 1,
       circuits  |-> groupCircuits,
       totalAmps |-> totalAmps,
       size      |-> mccbSizeOf(totalAmps)]

\* the body of the loop: the group pushed for the circuits from position i
mccbGroup(activeCircuits, i) ==
  LET groupCircuits == arraySlice(activeCircuits, i, i + CIRCUITS_PER_MCCB)
      totalAmps     == [num |-> sumAmps(groupCircuits, 0), den |-> 220]
  IN  [id        |-> MathFloor(i, CIRCUITS_PER_MCCB) + 1,
       circuits  |-> groupCircuits,
       totalAmps |-> totalAmps,
       size      |-> mccbSizeOf(totalAmps)]

RECURSIVE mccbLoop(_, _, _)
\* for (let i = 0; i < activeCircuits.length; i += CIRCUITS_PER_MCCB) push
mccbLoop(activeCircuits, i, mccbGroups) ==
  IF i < arrayLength(activeCircuits)
  THEN mccbLoop(activeCircuits, i + CIRCUITS_PER_MCCB,
                arrayPush(mccbGroups, mccbGroup(activeCircuits, i)))
  ELSE mccbGroups

breakdown(data, grid) ==
  LET activeCircuits == activeCircuitsOf(data, grid)
  IN  [ports    |-> activeGroups(countedGroups(grid.cells, "portId")),
       circuits |-> activeCircuits,
       mccbs    |-> mccbLoop(activeCircuits, 0, <<>>)]

(***************************************************************************)
(* App.tsx                                                                 *)
(***************************************************************************)
\* A text field's value is <<>> when empty and <<n>> when it holds the
\* numeral of n; the width and height states are '' (<<>>) or a number
\* (<<n>>); selectedPitch is null (<<>>) or a pitch (<<p>>).
Number(value) == IF value = <<>> THEN 0 ELSE value[1]

\* variant: the early return taken only when both numbers are falsy
resultsUnlessBothFalsy ==
  LET w == Number(width)
      h == Number(height)
  IN  IF w = 0 /\ h = 0 THEN <<>>
      ELSE [i \in 1 .. Len(PIXEL_PITCHES) |->
              calculateRequirements(w, h, PIXEL_PITCHES[i], environment)]

\* variant: the pitches mapped from the last to the first
resultsReversed ==
  LET w == Number(width)
      h == Number(height)
  IN  IF w = 0 \/ h = 0 THEN <<>>
      ELSE [i \in 1 .. Len(PIXEL_PITCHES) |->
              calculateRequirements(w, h, PIXEL_PITCHES[Len(PIXEL_PITCHES) + 1 - i],
                                    environment)]

\* useMemo: [] unless both numbers are truthy, else one result per pitch
results ==
  LET w == Number(width)
      h == Number(height)
  IN  IF w = 0 \/ h = 0 THEN <<>>
      ELSE [i \in 1 .. Len(PIXEL_PITCHES) |->
              calculateRequirements(w, h, PIXEL_PITCHES[i], environment)]

\* variant: the first result taken, whatever pitch is selected
selectedResultFirst ==
  IF DOMAIN results = {} THEN <<>> ELSE <<results[1]>>

\* results.find(r => r.pitch === selectedPitch) || null
selectedResult ==
  LET found == {i \in DOMAIN results : selectedPitch = <<results[i].pitch>>}
  IN  IF found = {} THEN <<>>
      ELSE <<results[CHOOSE i \in found : \A j \in found : i <= j]>>

TypedWidths == {<<>>, <<0>>, <<-500>>} \cup {<<250 * k>> : k \in 1 .. MaxWidthSteps}

TypedHeights == {<<>>, <<0>>, <<-1000>>} \cup {<<500 * k>> : k \in 1 .. MaxHeightSteps}

Init ==
  /\ width = <<5000>>
  /\ height = <<3000>>
  /\ environment = "indoor"
  /\ selectedPitch = <<>>
  /\ pc = "App"
  /\ args = <<>>
  /\ ret = <<>>

handleWidthChange(val) ==
  /\ width' = IF val = <<>> THEN <<>> ELSE <<Number(val)>>
  /\ UNCHANGED <<height, environment, selectedPitch, pc, args, ret>>

handleHeightChange(val) ==
  /\ height' = IF val = <<>> THEN <<>> ELSE <<Number(val)>>
  /\ UNCHANGED <<width, environment, selectedPitch, pc, args, ret>>

setEnvironment(env) ==
  /\ environment' = env
  /\ UNCHANGED <<width, height, selectedPitch, pc, args, ret>>

\* a result card's onClick; cards exist only for the current results
setSelectedPitch(i) ==
  /\ i \in DOMAIN results
  /\ selectedPitch' = <<results[i].pitch>>
  /\ UNCHANGED <<width, height, environment, pc, args, ret>>

handleReset ==
  /\ width' = <<>>
  /\ height' = <<>>
  /\ selectedPitch' = <<>>
  /\ UNCHANGED <<environment, pc, args, ret>>

Next ==
  \/ \E val \in TypedWidths : handleWidthChange(val)
  \/ \E val \in TypedHeights : handleHeightChange(val)
  \/ \E env \in {"indoor", "outdoor"} : setEnvironment(env)
  \/ \E i \in 1 .. Len(PIXEL_PITCHES) : setSelectedPitch(i)
  \/ handleReset

Spec == Init /\ [][Next]_vars

\* what the Visualizer renders from: data = selectedResult
shown == selectedResult # <<>>

shownData == selectedResult[1]

(***************************************************************************)
(* Direct calls of the pure functions, on arguments drawn from bounded     *)
(* sets                                                                    *)
(***************************************************************************)
AppIdle ==
  /\ width = <<5000>>
  /\ height = <<3000>>
  /\ environment = "indoor"
  /\ selectedPitch = <<>>

Return(value) ==
  /\ pc = "call"
  /\ pc' = "return"
  /\ ret' = value
  /\ UNCHANGED <<width, height, environment, selectedPitch, args>>

\* calculateRequirements(widthMm, heightMm, pitch, environment): any number
\* may be passed; 0.9 mm and 1500 mm are pitches outside PIXEL_PITCHES
CalcDims == {-750, 0, 1, 499, 501, 999, 1001, 25000} \cup {250 * k : k \in 1 .. MaxDimSteps}

SupportedPitches == {PIXEL_PITCHES[i] : i \in DOMAIN PIXEL_PITCHES}

CalcPitches == SupportedPitches \cup {90, 150000}

InitCalc ==
  /\ AppIdle
  /\ pc = "call"
  /\ args \in [widthMm : CalcDims, heightMm : CalcDims,
               pitch : CalcPitches, environment : {"indoor", "outdoor"}]
  /\ ret = <<>>

CallCalculateRequirements ==
  Return(calculateRequirements(args.widthMm, args.heightMm, args.pitch, args.environment))

SpecCalc == InitCalc /\ [][CallCalculateRequirements]_vars

\* generateAssignments(totalItems, groupCount)
InitAssign ==
  /\ AppIdle
  /\ pc = "call"
  /\ args \in [totalItems : 0 .. MaxItems, groupCount : 1 .. MaxGroups]
  /\ ret = <<>>

CallGenerateAssignments == Return(generateAssignments(args.totalItems, args.groupCount))

SpecAssign == InitAssign /\ [][CallGenerateAssignments]_vars

\* gridData for a result of any grid size and any port and circuit counts
InitGrid ==
  /\ AppIdle
  /\ pc = "call"
  /\ \E cw \in 1 .. MaxCols, ch \in 1 .. MaxRows :
       \E ports \in 1 .. MaxGroups, circuits \in 1 .. MaxGroups :
         args = [cabinetsWidth |-> cw, cabinetsHeight |-> ch, totalCabinets |-> cw * ch,
                 lanPorts |-> ports, circuits220v |-> circuits]
  /\ ret = <<>>

CallGridData == Return(gridData(args))

SpecGrid == InitGrid /\ [][CallGridData]_vars

(***************************************************************************)
(* Properties                                                              *)
(***************************************************************************)
returned == pc = "return"

\* how many entries of the array hold the group id g
occurrences(array, g) == Cardinality({k \in DOMAIN array : array[k] = g})

\* C1: generateAssignments(totalItems, groupCount), totalItems >= 0 and
\* groupCount >= 1, returns totalItems entries, each a group id in
\* [0, groupCount); group g occurs floor(totalItems/groupCount) + 1 times if
\* g < totalItems mod groupCount and floor(totalItems/groupCount) times
\* otherwise.
C1_BalancedAssignments ==
  returned =>
    /\ DOMAIN ret = 0 .. args.totalItems - 1
    /\ \A k \in DOMAIN ret : ret[k] \in 0 .. args.groupCount - 1
    /\ \A g \in 0 .. args.groupCount - 1 :
         occurrences(ret, g) =
           (args.totalItems \div args.groupCount)
             + (IF g < args.totalItems % args.groupCount THEN 1 ELSE 0)

\* 11 items over 4 groups: counts 3, 3, 3, 2
C1_Witness ==
  /\ returned
  /\ args.totalItems = 11
  /\ args.groupCount = 4
  /\ <<occurrences(ret, 0), occurrences(ret, 1), occurrences(ret, 2), occurrences(ret, 3)>>
       = <<3, 3, 3, 2>>

\* C2: over the cells of a cabinetsWidth x cabinetsHeight grid (one cell per
\* (x, y)), the snake indices are pairwise distinct and are exactly
\* 0 .. cabinetsWidth * cabinetsHeight - 1.
C2_SnakeBijection ==
  returned =>
    LET cells == ret.cells
    IN  /\ {<<cells[k].x, cells[k].y>> : k \in DOMAIN cells}
             = (0 .. args.cabinetsWidth - 1) \X (0 .. args.cabinetsHeight - 1)
        /\ Cardinality(DOMAIN cells) = args.cabinetsWidth * args.cabinetsHeight
        /\ \A j, k \in DOMAIN cells :
             j # k => cells[j].snakeIndex # cells[k].snakeIndex
        /\ {cells[k].snakeIndex : k \in DOMAIN cells}
             = 0 .. args.cabinetsWidth * args.cabinetsHeight - 1

\* a grid with an odd column and several rows, whose last index is taken
C2_Witness ==
  /\ returned
  /\ args.cabinetsWidth = 4
  /\ args.cabinetsHeight = 3
  /\ \E k \in DOMAIN ret.cells :
       /\ ret.cells[k].x = 3
       /\ ret.cells[k].y = 0
       /\ ret.cells[k].snakeIndex = 11

\* C3: column-major with alternating direction: in an even column x the cell
\* (x, y) has index x * cabinetsHeight + y, in an odd column
\* x * cabinetsHeight + (cabinetsHeight - 1 - y); the cells of column x take
\* the indices x * cabinetsHeight .. (x + 1) * cabinetsHeight - 1.
C3_SnakeColumnMajor ==
  returned =>
    LET cells == ret.cells
        ch    == args.cabinetsHeight
    IN  /\ \A k \in DOMAIN cells :
             LET c == cells[k]
             IN  /\ c.x % 2 = 0 => c.snakeIndex = c.x * ch + c.y
                 /\ c.x % 2 = 1 => c.snakeIndex = c.x * ch + (ch - 1 - c.y)
        /\ \A x \in 0 .. args.cabinetsWidth - 1 :
             {cells[k].snakeIndex : k \in {j \in DOMAIN cells : cells[j].x = x}}
               = x * ch .. (x + 1) * ch - 1

\* the top cell of an odd column carries the column's last index
C3_Witness ==
  /\ returned
  /\ args.cabinetsWidth = 2
  /\ args.cabinetsHeight = 3
  /\ \E k \in DOMAIN ret.cells :
       /\ ret.cells[k].x = 1
       /\ ret.cells[k].y = 0
       /\ ret.cells[k].snakeIndex = 5

\* the Visualizer is rendering a result computed from positive dimensions
shownPositive == shown /\ Number(width) > 0 /\ Number(height) > 0

\* C4: for a result from positive dimensions and a supported pitch the grid
\* has exactly totalCabinets cells, and each cell's portId and circuitId are
\* the entries of the port and circuit assignments at its snake index, inside
\* [0, lanPorts) and [0, circuits220v).
C4_CellsAssigned ==
  shownPositive =>
    LET data               == shownData
        cells              == gridData(data).cells
        portAssignments    == generateAssignments(data.totalCabinets, data.lanPorts)
        circuitAssignments == generateAssignments(data.totalCabinets, data.circuits220v)
    IN  /\ Cardinality(DOMAIN cells) = data.totalCabinets
        /\ \A k \in DOMAIN cells :
             LET c == cells[k]
             IN  /\ c.snakeIndex = snakeIndex(c.x, c.y, data.cabinetsHeight)
                 /\ c.snakeIndex \in DOMAIN portAssignments
                 /\ c.snakeIndex \in DOMAIN circuitAssignments
                 /\ c.portId = portAssignments[c.snakeIndex]
                 /\ c.circuitId = circuitAssignments[c.snakeIndex]
                 /\ c.portId \in 0 .. data.lanPorts - 1
                 /\ c.circuitId \in 0 .. data.circuits220v - 1

\* a wall of several ports and circuits whose last cabinet on the snake path
\* is on the last port and the last circuit
C4_Witness ==
  /\ shownPositive
  /\ shownData.lanPorts >= 2
  /\ shownData.circuits220v >= 2
  /\ \E k \in DOMAIN gridData(shownData).cells :
       LET c == gridData(shownData).cells[k]
       IN  /\ c.snakeIndex = shownData.totalCabinets - 1
           /\ c.portId = shownData.lanPorts - 1
           /\ c.circuitId = shownData.circuits220v - 1

\* the count the breakdown reports for group id g, 0 if it lists none
reportedCount(groups, g) ==
  IF \E i \in DOMAIN groups : groups[i].id = g
  THEN groups[CHOOSE i \in DOMAIN groups : groups[i].id = g].count
  ELSE 0

\* the counts of groups 0 .. groupCount - 1 differ by at most one, and are all
\* totalItems / groupCount when that is whole
evenCounts(groups, totalItems, groupCount) ==
  /\ \A g, h \in 0 .. groupCount - 1 :
       reportedCount(groups, g) - reportedCount(groups, h) <= 1
  /\ totalItems % groupCount = 0 =>
       \A g \in 0 .. groupCount - 1 :
         reportedCount(groups, g) * groupCount = totalItems

\* C5: the per-port cabinet counts of the breakdown differ by at most one,
\* and so do the per-circuit counts; when lanPorts (circuits220v) divides
\* totalCabinets the counts are all equal.
C5_LoadWithinOneCabinet ==
  shownPositive =>
    LET data == shownData
        b    == breakdown(data, gridData(data))
    IN  /\ evenCounts(b.ports, data.totalCabinets, data.lanPorts)
        /\ evenCounts(b.circuits, data.totalCabinets, data.circuits220v)

\* 30 cabinets over 5 ports and 3 circuits: 6 per port, 10 per circuit
C5_Witness ==
  /\ shownPositive
  /\ shownData.totalCabinets = 30
  /\ shownData.lanPorts = 5
  /\ shownData.circuits220v = 3
  /\ LET b == breakdown(shownData, gridData(shownData))
     IN  /\ \A g \in 0 .. 4 : reportedCount(b.ports, g) = 6
         /\ \A g \in 0 .. 2 : reportedCount(b.circuits, g) = 10

\* C6: every result has totalCabinets = cabinetsWidth * cabinetsHeight and
\* totalPixels = resolutionWidth * resolutionHeight.
C6_TotalsAreProducts ==
  returned =>
    /\ ret.totalCabinets = ret.cabinetsWidth * ret.cabinetsHeight
    /\ ret.totalPixels = ret.resolutionWidth * ret.resolutionHeight

\* a wall whose width and height differ in cabinets and in pixels
C6_Witness ==
  /\ returned
  /\ ret.cabinetsWidth = 10
  /\ ret.cabinetsHeight = 3
  /\ ret.totalCabinets = 30
  /\ ret.resolutionWidth = 2000
  /\ ret.resolutionHeight = 1200
  /\ ret.totalPixels = 2400000

\* C7: for positive dimensions the grid covers the requested size and is the
\* smallest that does: cabinetsWidth * 500 >= widthMm > (cabinetsWidth-1) * 500
\* and cabinetsHeight * 1000 >= heightMm > (cabinetsHeight-1) * 1000.
C7_GridCoversAndIsMinimal ==
  (returned /\ args.widthMm > 0 /\ args.heightMm > 0) =>
    /\ ret.cabinetsWidth * 500 >= args.widthMm
    /\ (ret.cabinetsWidth - 1) * 500 < args.widthMm
    /\ ret.cabinetsHeight * 1000 >= args.heightMm
    /\ (ret.cabinetsHeight - 1) * 1000 < args.heightMm

\* dimensions just past a whole number of cabinets are rounded up
C7_Witness ==
  /\ returned
  /\ args.widthMm = 501
  /\ args.heightMm = 1001
  /\ ret.cabinetsWidth = 2
  /\ ret.cabinetsHeight = 2

\* the tiers, highest first
ResolutionTiers ==
  <<[name |-> "8K",  long |-> 7680, short |-> 4320],
    [name |-> "4K",  long |-> 3840, short |-> 2160],
    [name |-> "QHD", long |-> 2560, short |-> 1440],
    [name |-> "FHD", long |-> 1920, short |-> 1080],
    [name |-> "HD",  long |-> 1280, short |-> 720]>>

\* the highest tier whose two thresholds the sides a and b meet, else SD
highestTier(a, b) ==
  LET long  == IF a >= b THEN a ELSE b
      short == IF a >= b THEN b ELSE a
      met   == {i \in DOMAIN ResolutionTiers :
                  long >= ResolutionTiers[i].long /\ short >= ResolutionTiers[i].short}
  IN  IF met = {} THEN "SD"
      ELSE ResolutionTiers[CHOOSE i \in met : \A j \in met : i <= j].name

\* C8: resolutionClass is the highest of 8K, 4K, QHD, FHD, HD whose long and
\* short thresholds the longer and the shorter side of the resolution meet,
\* SD if none; the wall turned by 90 degrees gets the same class.
C8_HighestTierEitherOrientation ==
  returned =>
    /\ ret.resolutionClass = highestTier(ret.resolutionWidth, ret.resolutionHeight)
    /\ ret.resolutionClass =
         calculateRequirements(args.heightMm, args.widthMm,
                               args.pitch, args.environment).resolutionClass

\* a portrait wall that meets the 4K pair but not the 8K pair
C8_Witness ==
  /\ returned
  /\ ret.resolutionWidth < ret.resolutionHeight
  /\ ret.resolutionWidth >= 2160
  /\ ret.resolutionHeight >= 3840
  /\ ret.resolutionWidth < 3840
  /\ ret.resolutionClass = "4K"

\* round(500 / pitch) * round(1000 / pitch), from the pitch alone
pitchPixelsPerCabinet(pitch) ==
  ((2 * 50000 + pitch) \div (2 * pitch)) * ((2 * 100000 + pitch) \div (2 * pitch))

\* C9: lanPorts = ceil(totalCabinets / max(1, floor(552500 / pixelsPerCabinet)))
\* with pixelsPerCabinet = round(500/pitch) * round(1000/pitch); when one
\* cabinet exceeds the budget, lanPorts = totalCabinets.  (Stated where the
\* quotient by pixelsPerCabinet exists.)
C9_LanPortsFromSafeBudget ==
  (returned /\ pitchPixelsPerCabinet(args.pitch) >= 1) =>
    LET perCabinet == pitchPixelsPerCabinet(args.pitch)
        perPort    == IF 552500 \div perCabinet >= 1 THEN 552500 \div perCabinet ELSE 1
    IN  /\ (ret.lanPorts - 1) * perPort < ret.totalCabinets
        /\ ret.totalCabinets <= ret.lanPorts * perPort
        /\ perCabinet > 552500 => ret.lanPorts = ret.totalCabinets

\* at 0.9 mm one cabinet has 617,716 pixels: one port per cabinet
C9_Witness ==
  /\ returned
  /\ args.pitch = 90
  /\ pitchPixelsPerCabinet(args.pitch) = 617716
  /\ ret.totalCabinets = 30
  /\ ret.lanPorts = 30

\* C10: for every pitch calculateRequirements is given, pixelsPerCabinet, the
\* divisor of the port-capacity step, is at least 1, and lanPorts is a finite
\* integer >= 1 (for positive dimensions).
C10_PixelsPerCabinetGuarded ==
  (returned /\ args.widthMm > 0 /\ args.heightMm > 0) =>
    /\ pixelsPerCabinetOf(args.pitch) >= 1
    /\ ret.lanPorts >= 1
    /\ ret.lanPorts < Infinity

\* C11: the controller follows from lanPorts alone: 1 gives TB20, 2 gives
\* MCTRL300, 3..4 give MCTRL600, 5..16 give VX16s, more than 16 give
\* Multiple VX16s.
C11_ControllerByLanPorts ==
  returned =>
    /\ ret.lanPorts = 1 => ret.controller = "TB20"
    /\ ret.lanPorts = 2 => ret.controller = "MCTRL300"
    /\ ret.lanPorts \in 3 .. 4 => ret.controller = "MCTRL600"
    /\ ret.lanPorts \in 5 .. 16 => ret.controller = "VX16s"
    /\ ret.lanPorts > 16 => ret.controller = "Multiple VX16s"

\* sixteen ports is the last wall one VX16s drives
C11_Witness ==
  /\ returned
  /\ ret.lanPorts = 16
  /\ ret.controller = "VX16s"

\* C12: circuits220v = ceil(totalCabinets / max(1, floor(16 / ampsPerCabinet)))
\* with ampsPerCabinet = peakWattsPerPanel / 220: 14 cabinets per circuit
\* indoor (250 W), 7 outdoor (500 W); the pitch does not enter.
C12_CircuitsFromSafeAmps ==
  returned =>
    LET peakWatts  == IF args.environment = "indoor" THEN 250 ELSE 500
        fitting    == (16 * 220) \div peakWatts
        perCircuit == IF fitting >= 1 THEN fitting ELSE 1
    IN  /\ perCircuit = (IF args.environment = "indoor" THEN 14 ELSE 7)
        /\ (ret.circuits220v - 1) * perCircuit < ret.totalCabinets
        /\ ret.totalCabinets <= ret.circuits220v * perCircuit
        /\ \A p \in CalcPitches :
             calculateRequirements(args.widthMm, args.heightMm, p,
                                   args.environment).circuits220v = ret.circuits220v

\* 15 outdoor cabinets: two full circuits of 7 and a third
C12_Witness ==
  /\ returned
  /\ args.environment = "outdoor"
  /\ ret.totalCabinets = 15
  /\ ret.circuits220v = 3

BreakerTable ==
  {20, 30, 40, 50, 60, 70, 80, 100, 125, 150, 175, 200, 225, 250,
   300, 350, 400, 500, 600, 800, 1000, 1200}

\* size >= amps * 1.25, for amps = [num, den]
coversWithMargin(size, amps) == 4 * size * amps.den >= 5 * amps.num

\* size is the smallest entry of the table that covers amps with the margin,
\* or the fallback when no entry does
smallestCovering(size, table, amps, fallback) ==
  IF \E entry \in table : coversWithMargin(entry, amps)
  THEN /\ size \in table
       /\ coversWithMargin(size, amps)
       /\ \A entry \in table : coversWithMargin(entry, amps) => size <= entry
  ELSE size = fallback

\* C13: mainBreakerSize is the smallest entry of STANDARD_BREAKER_SIZES that
\* is >= amps220v * 1.25, and 1200 when amps220v * 1.25 exceeds them all.
C13_MainBreakerSmallestOrMax ==
  returned => smallestCovering(ret.mainBreakerSize, BreakerTable, ret.amps220v, 1200)

\* a wall whose required amps exceed 1200: the size saturates
C13_Witness ==
  /\ returned
  /\ 5 * ret.amps220v.num > 4 * 1200 * ret.amps220v.den
  /\ ret.mainBreakerSize = 1200

\* C14: n circuits give ceil(n / 6) blocks with ids 1, 2, ... in order; block
\* k holds the circuits at positions 6(k-1) .. min(6k, n) - 1; every block but
\* the last holds 6, none is empty, every circuit is in exactly one block.
C14_BlocksOfSix ==
  shownPositive =>
    LET b        == breakdown(shownData, gridData(shownData))
        circuits == b.circuits
        n        == Cardinality(DOMAIN circuits)
        blocks   == b.mccbs
        m        == Cardinality(DOMAIN blocks)
    IN  /\ DOMAIN blocks = 0 .. m - 1
        /\ 6 * (m - 1) < n
        /\ n <= 6 * m
        /\ \A k \in 1 .. m :
             LET members == blocks[k - 1].circuits
                 first   == 6 * (k - 1)
                 last    == (IF 6 * k <= n THEN 6 * k ELSE n) - 1
             IN  /\ blocks[k - 1].id = k
                 /\ DOMAIN members = 0 .. last - first
                 /\ \A j \in DOMAIN members : members[j] = circuits[first + j]
                 /\ Cardinality(DOMAIN members) >= 1
                 /\ k < m => Cardinality(DOMAIN members) = 6
        /\ \A c \in DOMAIN circuits :
             Cardinality({k \in DOMAIN blocks :
                            \E j \in DOMAIN blocks[k].circuits :
                              blocks[k].circuits[j].id = circuits[c].id}) = 1
        /\ n = 3 => (m = 1 /\ Cardinality(DOMAIN blocks[0].circuits) = 3)

\* 13 circuits: two blocks of 6 and a last block of 1
C14_Witness ==
  /\ shownPositive
  /\ LET b == breakdown(shownData, gridData(shownData))
     IN  /\ Cardinality(DOMAIN b.circuits) = 13
         /\ Cardinality(DOMAIN b.mccbs) = 3
         /\ Cardinality(DOMAIN b.mccbs[1].circuits) = 6
         /\ Cardinality(DOMAIN b.mccbs[2].circuits) = 1
         /\ b.mccbs[2].id = 3

RECURSIVE ampsNumerators(_, _)
\* the sum of the amps (in 220ths) of the members from position j on
ampsNumerators(members, j) ==
  IF j \notin DOMAIN members THEN 0
  ELSE members[j].amps.num + ampsNumerators(members, j + 1)

\* C15: a block's totalAmps is the sum of its circuits' amps (each the
\* circuit's cabinets times the panel's peak watts over 220), and its size is
\* the smallest of 32, 40, 63, 80, 100, 125, 160, 200, 250, 400 that is
\* >= totalAmps * 1.25, or 400 if none is.
C15_BlockAmpsAndBreaker ==
  shownPositive =>
    LET grid   == gridData(shownData)
        blocks == breakdown(shownData, grid).mccbs
        watts  == IF environment = "indoor" THEN 250 ELSE 500
    IN  \A k \in DOMAIN blocks :
          LET members == blocks[k].circuits
              ids     == {members[j].id : j \in DOMAIN members}
              fed     == {c \in DOMAIN grid.cells : grid.cells[c].circuitId \in ids}
          IN  /\ \A j \in DOMAIN members : members[j].amps.den = 220
              /\ blocks[k].totalAmps.den = 220
              /\ blocks[k].totalAmps.num = ampsNumerators(members, 0)
              /\ blocks[k].totalAmps.num = watts * Cardinality(fed)
              /\ smallestCovering(blocks[k].size,
                                  {32, 40, 63, 80, 100, 125, 160, 200, 250, 400},
                                  blocks[k].totalAmps, 400)

\* a full block of six outdoor circuits of 7 cabinets: 21000 W, 95.45 A, 125 A
C15_Witness ==
  /\ shownPositive
  /\ environment = "outdoor"
  /\ LET blocks == breakdown(shownData, gridData(shownData)).mccbs
     IN  /\ Cardinality(DOMAIN blocks) >= 2
         /\ Cardinality(DOMAIN blocks[0].circuits) = 6
         /\ blocks[0].totalAmps = [num |-> 21000, den |-> 220]
         /\ blocks[0].size = 125

\* C16: for fixed positive width, height and environment and supported
\* pitches p1 < p2, the result for p1 has totalPixels, lanPorts and
\* circuits220v at least those of the result for p2.
C16_FinerPitchNeverNeedsLess ==
  (returned /\ args.widthMm > 0 /\ args.heightMm > 0 /\ args.pitch \in SupportedPitches) =>
    \A p2 \in SupportedPitches :
      args.pitch < p2 =>
        LET coarser == calculateRequirements(args.widthMm, args.heightMm, p2,
                                             args.environment)
        IN  /\ ret.totalPixels >= coarser.totalPixels
            /\ ret.lanPorts >= coarser.lanPorts
            /\ ret.circuits220v >= coarser.circuits220v

\* 5000 x 3000 at 1.25 mm against 3.91 mm: more pixels, more ports
C16_Witness ==
  /\ returned
  /\ args.widthMm = 5000
  /\ args.heightMm = 3000
  /\ args.pitch = 125
  /\ LET coarser == calculateRequirements(5000, 3000, 391, args.environment)
     IN  /\ ret.totalPixels > coarser.totalPixels
         /\ ret.lanPorts > coarser.lanPorts
         /\ ret.circuits220v = coarser.circuits220v

ScenarioA == [widthMm |-> 5000, heightMm |-> 3000, pitch |-> 250, environment |-> "indoor"]

\* C17: calculateRequirements(5000, 3000, 2.5, indoor) returns 10 x 3 = 30
\* cabinets, 2000 x 1200 pixels, FHD, 5 LAN ports, VX16s, 7500 W peak,
\* 7500/220 A (about 34.09), 3 circuits, a 50 A main breaker and 15 m2.
C17_ScenarioA ==
  (returned /\ args = ScenarioA) =>
    /\ ret.cabinetsWidth = 10
    /\ ret.cabinetsHeight = 3
    /\ ret.totalCabinets = 30
    /\ ret.resolutionWidth = 2000
    /\ ret.resolutionHeight = 1200
    /\ ret.resolutionClass = "FHD"
    /\ ret.lanPorts = 5
    /\ ret.controller = "VX16s"
    /\ ret.peakPowerWatts = 7500
    /\ ret.amps220v.num * 220 = 7500 * ret.amps220v.den
    /\ 3409 * ret.amps220v.den <= 100 * ret.amps220v.num
    /\ 100 * ret.amps220v.num < 3410 * ret.amps220v.den
    /\ ret.circuits220v = 3
    /\ ret.mainBreakerSize = 50
    /\ ret.areaSqM.num = 15 * ret.areaSqM.den

C17_Witness ==
  /\ returned
  /\ args = ScenarioA
  /\ ret.pitch = 250
  /\ ret.totalCabinets = 30
  /\ ret.lanPorts = 5
  /\ ret.mainBreakerSize = 50

\* C18: peakPowerWatts = totalCabinets * 250 and avgPowerWatts =
\* totalCabinets * 100 indoor, 500 and 200 outdoor; amps220v =
\* peakPowerWatts / 220.
C18_PowerPerEnvironment ==
  returned =>
    /\ args.environment = "indoor" =>
         /\ ret.peakPowerWatts = ret.totalCabinets * 250
         /\ ret.avgPowerWatts = ret.totalCabinets * 100
    /\ args.environment = "outdoor" =>
         /\ ret.peakPowerWatts = ret.totalCabinets * 500
         /\ ret.avgPowerWatts = ret.totalCabinets * 200
    /\ ret.amps220v.num * 220 = ret.peakPowerWatts * ret.amps220v.den

\* 30 outdoor cabinets: 15000 W peak, 6000 W average
C18_Witness ==
  /\ returned
  /\ args.environment = "outdoor"
  /\ ret.totalCabinets = 30
  /\ ret.peakPowerWatts = 15000
  /\ ret.avgPowerWatts = 6000
  /\ ret.amps220v = [num |-> 15000, den |-> 220]

\* C19: when width or height is 0 or empty there are no results (no call of
\* calculateRequirements) and nothing is shown.
C19_ZeroOrEmptyRejected ==
  (Number(width) = 0 \/ Number(height) = 0) =>
    /\ DOMAIN results = {}
    /\ ~shown

\* a pitch was selected, then the width set to 0
C19_Witness ==
  /\ width = <<0>>
  /\ Number(height) > 0
  /\ selectedPitch # <<>>
  /\ DOMAIN results = {}
  /\ ~shown

\* C20: a non-positive width or height, negative ones included, produces no
\* CalculationResult.
C20_NonPositiveRejected ==
  (Number(width) <= 0 \/ Number(height) <= 0) => DOMAIN results = {}

\* the supported pitches in the order of the comparison, in hundredths of mm
SupportedPitchList == <<125, 156, 195, 250, 260, 290, 391>>

\* C21: for accepted (positive) dimensions the result set has exactly one
\* result per supported pitch, in list order, the i-th carrying the i-th
\* pitch, all computed from the current width, height and environment; no
\* result carries a pitch outside the list.
C21_OneResultPerPitch ==
  (Number(width) > 0 /\ Number(height) > 0) =>
    /\ DOMAIN results = 1 .. 7
    /\ \A i \in 1 .. 7 :
         /\ results[i].pitch = SupportedPitchList[i]
         /\ results[i] = calculateRequirements(Number(width), Number(height),
                                               SupportedPitchList[i], environment)
         /\ results[i].areaSqM.num = Number(width) * Number(height)
         /\ results[i].peakPowerWatts =
              results[i].totalCabinets * (IF environment = "indoor" THEN 250 ELSE 500)
    /\ \A i \in DOMAIN results :
         results[i].pitch \in {125, 156, 195, 250, 260, 290, 391}

\* a 2500 x 2000 outdoor wall: seven results from 1.25 mm to 3.91 mm
C21_Witness ==
  /\ width = <<2500>>
  /\ height = <<2000>>
  /\ environment = "outdoor"
  /\ Len(results) = 7
  /\ results[1].pitch = 125
  /\ results[1].resolutionWidth = 2000
  /\ results[7].pitch = 391
  /\ results[7].resolutionWidth = 639
  /\ results[7].peakPowerWatts = 5000

\* C22: for positive dimensions and a supported pitch, no port is assigned
\* more than floor(552500 / pixelsPerCabinet) cabinets: no port carries more
\* than the 552,500-pixel safe budget counted in whole cabinets.
C22_PortWithinSafeBudget ==
  shownPositive =>
    LET data       == shownData
        grid       == gridData(data)
        ports      == breakdown(data, grid).ports
        perCabinet == pitchPixelsPerCabinet(data.pitch)
        perPort    == 552500 \div perCabinet
    IN  /\ 552500 * 100 = 650000 * 85
        /\ \A k \in DOMAIN ports :
             /\ ports[k].count <= perPort
             /\ ports[k].count * perCabinet <= 552500
        /\ \A p \in 0 .. data.lanPorts - 1 :
             Cardinality({c \in DOMAIN grid.cells : grid.cells[c].portId = p}) <= perPort

\* at 2.5 mm a port takes 6 cabinets (480,000 pixels): a wall of 12 cabinets
\* fills both of its ports
C22_Witness ==
  /\ shownPositive
  /\ shownData.pitch = 250
  /\ shownData.totalCabinets = 12
  /\ shownData.lanPorts = 2
  /\ LET ports == breakdown(shownData, gridData(shownData)).ports
     IN  /\ ports[0].count = 6
         /\ ports[1].count = 6
         /\ 7 * pitchPixelsPerCabinet(250) > 552500

\* C23: for positive dimensions and either environment, no circuit is
\* assigned more than floor(16 / ampsPerCabinet) cabinets (14 indoor, 7
\* outdoor), so every circuit's amps is at most 16 A.
C23_CircuitWithinSafeAmps ==
  shownPositive =>
    LET data       == shownData
        grid       == gridData(data)
        circuits   == breakdown(data, grid).circuits
        perCircuit == IF environment = "indoor" THEN 14 ELSE 7
    IN  /\ \A k \in DOMAIN circuits :
             /\ circuits[k].count <= perCircuit
             /\ circuits[k].amps.num <= 16 * circuits[k].amps.den
        /\ \A q \in 0 .. data.circuits220v - 1 :
             Cardinality({c \in DOMAIN grid.cells : grid.cells[c].circuitId = q})
               <= perCircuit

\* 28 indoor cabinets: two circuits of 14 cabinets, 3500 W = 15.9 A each
C23_Witness ==
  /\ shownPositive
  /\ environment = "indoor"
  /\ shownData.totalCabinets = 28
  /\ LET circuits == breakdown(shownData, gridData(shownData)).circuits
     IN  /\ Cardinality(DOMAIN circuits) = 2
         /\ circuits[0].count = 14
         /\ circuits[1].amps = [num |-> 3500, den |-> 220]

\* C24: for positive dimensions and a supported pitch, 1 <= lanPorts <=
\* totalCabinets and 1 <= circuits220v <= totalCabinets; every port id in
\* [0, lanPorts) and every circuit id in [0, circuits220v) has at least one
\* cabinet; the count > 0 filter drops nothing, and the port and circuit
\* summaries have exactly lanPorts and circuits220v entries, ids 0 .. n-1 in
\* order.
C24_EveryGroupUsed ==
  shownPositive =>
    LET data == shownData
        grid == gridData(data)
        b    == breakdown(data, grid)
    IN  /\ 1 <= data.lanPorts
        /\ data.lanPorts <= data.totalCabinets
        /\ 1 <= data.circuits220v
        /\ data.circuits220v <= data.totalCabinets
        /\ \A p \in 0 .. data.lanPorts - 1 :
             \E c \in DOMAIN grid.cells : grid.cells[c].portId = p
        /\ \A q \in 0 .. data.circuits220v - 1 :
             \E c \in DOMAIN grid.cells : grid.cells[c].circuitId = q
        /\ b.ports = countedGroups(grid.cells, "portId")
        /\ DOMAIN b.ports = 0 .. data.lanPorts - 1
        /\ \A k \in DOMAIN b.ports : b.ports[k].id = k /\ b.ports[k].count >= 1
        /\ DOMAIN b.circuits = 0 .. data.circuits220v - 1
        /\ \A k \in DOMAIN b.circuits : b.circuits[k].id = k /\ b.circuits[k].count >= 1

\* at 1.25 mm every cabinet needs its own port: 6 cabinets, 6 ports of one
C24_Witness ==
  /\ shownPositive
  /\ shownData.pitch = 125
  /\ shownData.totalCabinets = 6
  /\ shownData.lanPorts = 6
  /\ LET b == breakdown(shownData, gridData(shownData))
     IN  /\ Cardinality(DOMAIN b.ports) = 6
         /\ b.ports[5] = [id |-> 5, count |-> 1]
         /\ Cardinality(DOMAIN b.circuits) = 1

\* the distance between two cells in grid steps
gridSteps(a, b) ==
  (IF a.x >= b.x THEN a.x - b.x ELSE b.x - a.x)
    + (IF a.y >= b.y THEN a.y - b.y ELSE b.y - a.y)

\* C25: the snake order is a continuous path: for every k in
\* [0, totalCabinets - 2] there are cells with snake indices k and k + 1, and
\* they are orthogonally adjacent (|dx| + |dy| = 1), also at a column change.
C25_SnakePathContinuous ==
  returned =>
    LET cells == ret.cells
    IN  /\ \A k \in 0 .. args.totalCabinets - 2 :
             \E a, b \in DOMAIN cells :
               /\ cells[a].snakeIndex = k
               /\ cells[b].snakeIndex = k + 1
        /\ \A a, b \in DOMAIN cells :
             cells[b].snakeIndex = cells[a].snakeIndex + 1 =>
               gridSteps(cells[a], cells[b]) = 1

\* 3 columns of 2: the path leaves column 0 at the bottom and column 1 at the
\* top
C25_Witness ==
  /\ returned
  /\ args.cabinetsWidth = 3
  /\ args.cabinetsHeight = 2
  /\ \E a, b, c, d \in DOMAIN ret.cells :
       /\ ret.cells[a].snakeIndex = 1 /\ ret.cells[a].x = 0 /\ ret.cells[a].y = 1
       /\ ret.cells[b].snakeIndex = 2 /\ ret.cells[b].x = 1 /\ ret.cells[b].y = 1
       /\ ret.cells[c].snakeIndex = 3 /\ ret.cells[c].x = 1 /\ ret.cells[c].y = 0
       /\ ret.cells[d].snakeIndex = 4 /\ ret.cells[d].x = 2 /\ ret.cells[d].y = 0

\* along the snake order the ids of one kind start at 0, never decrease and
\* never skip a group
contiguousAlongSnake(cells, field) ==
  /\ \A a \in DOMAIN cells : cells[a].snakeIndex = 0 => cells[a][field] = 0
  /\ \A a, b \in DOMAIN cells :
       /\ cells[a].snakeIndex <= cells[b].snakeIndex => cells[a][field] <= cells[b][field]
       /\ cells[b].snakeIndex = cells[a].snakeIndex + 1 =>
            cells[b][field] \in {cells[a][field], cells[a][field] + 1}

\* C26: group ids are non-decreasing along the snake order (the assignments
\* are a sorted sequence), so the cabinets of each port, and of each circuit,
\* occupy one contiguous interval of snake indices, group 0 starting at snake
\* index 0 and group g + 1 starting immediately after group g ends.
C26_GroupsContiguousOnSnake ==
  returned =>
    LET ports    == generateAssignments(args.totalCabinets, args.lanPorts)
        circuits == generateAssignments(args.totalCabinets, args.circuits220v)
    IN  /\ \A j, k \in DOMAIN ports : j <= k => ports[j] <= ports[k]
        /\ \A j, k \in DOMAIN circuits : j <= k => circuits[j] <= circuits[k]
        /\ contiguousAlongSnake(ret.cells, "portId")
        /\ contiguousAlongSnake(ret.cells, "circuitId")

\* 2 columns of 3 on 2 ports: port 0 goes down column 0, port 1 takes over at
\* the bottom of column 1
C26_Witness ==
  /\ returned
  /\ args.cabinetsWidth = 2
  /\ args.cabinetsHeight = 3
  /\ args.lanPorts = 2
  /\ \E a, b \in DOMAIN ret.cells :
       /\ ret.cells[a].snakeIndex = 2 /\ ret.cells[a].y = 2 /\ ret.cells[a].portId = 0
       /\ ret.cells[b].snakeIndex = 3 /\ ret.cells[b].y = 2 /\ ret.cells[b].portId = 1

RECURSIVE sumOf(_, _, _)
\* numbers[from] + ... + numbers[to - 1]
sumOf(numbers, from, to) ==
  IF to <= from THEN 0
  ELSE IF to = from + 1 THEN numbers[from]
       ELSE LET mid == (from + to) \div 2
            IN  sumOf(numbers, from, mid) + sumOf(numbers, mid, to)

shownRendering == shown /\ ~gridDataThrows(shownData)

\* C28: for every wall, a block's totalAmps * 1.25 is at most 125 A (at most
\* 6 circuits of at most 16 A), its size is one of 32, 40, 63, 80, 100, 125
\* and is >= totalAmps * 1.25, and the 400 fallback is never taken.
C28_BlockBreakerAtMost125 ==
  shownRendering =>
    LET blocks == breakdown(shownData, gridData(shownData)).mccbs
    IN  \A k \in DOMAIN blocks :
          LET block == blocks[k]
          IN  /\ Cardinality(DOMAIN block.circuits) <= 6
              /\ \A j \in DOMAIN block.circuits :
                   block.circuits[j].amps.num <= 16 * block.circuits[j].amps.den
              /\ 5 * block.totalAmps.num <= 4 * 125 * block.totalAmps.den
              /\ block.size \in {32, 40, 63, 80, 100, 125}
              /\ coversWithMargin(block.size, block.totalAmps)
              /\ \E entry \in {32, 40, 63, 80, 100, 125, 160, 200, 250, 400} :
                   coversWithMargin(entry, block.totalAmps)

\* 90 indoor cabinets on 7 circuits: a full block of six circuits of 13
\* (19500 W, 88.6 A) gets 125 A, the last block of one circuit gets 32 A
C28_Witness ==
  /\ shownRendering
  /\ environment = "indoor"
  /\ shownData.totalCabinets = 90
  /\ LET blocks == breakdown(shownData, gridData(shownData)).mccbs
     IN  /\ Cardinality(DOMAIN blocks) = 2
         /\ blocks[0].totalAmps = [num |-> 19500, den |-> 220]
         /\ blocks[0].size = 125
         /\ blocks[1].totalAmps = [num |-> 3000, den |-> 220]
         /\ blocks[1].size = 32

\* the field holds a number other than 0
nonZeroNumber(value) == value # <<>> /\ Number(value) # 0

\* in a state: the Visualizer is shown exactly when a pitch is selected and
\* both dimensions are non-zero numbers, and it shows the result of the
\* selected pitch, taken from the current result set
visualizerFollowsSelection ==
  /\ shown <=> (selectedPitch # <<>> /\ nonZeroNumber(width) /\ nonZeroNumber(height))
  /\ shown =>
       /\ selectedPitch = <<shownData.pitch>>
       /\ \E i \in DOMAIN results : results[i] = shownData

\* in a step: the selection changes only by a card click (dimensions and
\* environment untouched) or by a reset; a reset leaves both fields empty,
\* no pitch selected, no results and no Visualizer
selectionChangesOnlyByClickOrReset ==
  /\ selectedPitch' # selectedPitch =>
       \/ UNCHANGED <<width, height, environment>>
       \/ (width' = <<>> /\ height' = <<>> /\ selectedPitch' = <<>>)
  /\ (width' # width \/ height' # height \/ environment' # environment) =>
       \/ selectedPitch' = selectedPitch
       \/ (width' = <<>> /\ height' = <<>> /\ selectedPitch' = <<>>)
  /\ handleReset =>
       /\ width' = <<>>
       /\ height' = <<>>
       /\ selectedPitch' = <<>>
       /\ (DOMAIN results)' = {}
       /\ ~shown'

====
